---- MODULE Spec2Model ----
(***************************************************************************)
(* The two tutorial notebooks of the repository, as state machines.        *)
(*                                                                         *)
(*   icephys  src/unnamed/part_000            (run recorded, In[2]..[26])  *)
(*   ophys    src/HCK08/ophys_tutorial.ipynb  (no recorded outputs)        *)
(*                                                                         *)
(* A notebook is a straight-line script: cells run top to bottom.  The     *)
(* model keeps that order (pc) and draws what the cells pass to the        *)
(* library (names, sweep numbers, data, masks, how many series / trials /  *)
(* ROIs are added) from small sets.  The library calls are modelled by     *)
(* what the notebooks show of them: the calls, the recorded outputs and    *)
(* the notebooks' own prose.                                               *)
(***************************************************************************)
EXTENDS Integers, Sequences, FiniteSets, TLC

VARIABLES
    nb,            \* which notebook runs: "icephys" or "ophys"
    pc,            \* position in the notebook
    heap,          \* address -> object (python objects, by id())
    nwbfile,       \* icephys: the in-memory NWBFile built by the notebook
    read_nwbfile,  \* icephys: the NWBFile returned by io.read()
    file,          \* icephys: the persisted My_First_Icephys_File.nwb
    nwb,           \* ophys: the in-memory NWBFile built by the notebook
    ecephys_file,  \* ophys: the persisted ecephys_tutorial.nwb
    rt_region,     \* ophys: the DynamicTableRegion of create_roi_table_region
    io,            \* the NWBHDF5IO handles opened so far, in order
    warnings,      \* UserWarnings emitted so far
    out,           \* Out[n] of the last query cell
    err            \* the error raised by the last rejected call, "" if none

vars == <<nb, pc, heap, nwbfile, read_nwbfile, file, nwb, ecephys_file,
          rt_region, io, warnings, out, err>>

icephys_vars == <<heap, nwbfile, read_nwbfile, file, warnings, out>>

ophys_vars == <<nwb, ecephys_file, rt_region>>

(***************************************************************************)
(* Bounds of the model                                                     *)
(***************************************************************************)
NumRois   == 2     \* iterations of each add_roi loop (range(30) in the notebook)
MaxTrials == 2     \* add_trial calls

(***************************************************************************)
(* Values the notebook passes                                              *)
(***************************************************************************)
DeviceNames    == {"Heka ITC-1600"}
ElectrodeNames == <<"elec0", "elec1">>     \* created in this order
StimNames      == {"CC_Stim_Sweep0", "VC_Stim_Sweep1"}
AcqNames       == {"CC_Resp_Sweep0", "VC_Resp_Sweep1"}
StimData       == {<<1, 2, 3, 4, 5>>, <<2, 3, 4, 5, 6>>}
AcqData        == {<<"0.1", "0.2", "0.3", "0.4", "0.5">>}   \* floats, as written
SweepNumbers   == {0, 1}

Null == 0          \* python None / no object; addresses start at 1

(***************************************************************************)
(* Sequence helpers                                                        *)
(***************************************************************************)
Range(s) == {s[i] : i \in 1..Len(s)}

Last(s) == s[Len(s)]

SeqMap(Op(_), s) == [i \in 1..Len(s) |-> Op(s[i])]

\* index of the first element of s satisfying P, 0 if none
FirstIndex(P(_), s) ==
    IF \E i \in 1..Len(s) : P(s[i])
    THEN CHOOSE i \in 1..Len(s) : P(s[i]) /\ \A j \in 1..(i - 1) : ~P(s[j])
    ELSE 0

(***************************************************************************)
(* Objects.  Every python object has one shape here; fields a kind does    *)
(* not have are Null / empty.                                              *)
(***************************************************************************)
Obj(kind, name, device, electrode, data, sweep) ==
    [kind |-> kind, name |-> name, device |-> device,
     electrode |-> electrode, data |-> data, sweep_number |-> sweep]

NewAddr(h) == Len(h) + 1

\* SweepTable: columns series (ragged: series + series_index), sweep_number, id
EmptySweepTable ==
    [id |-> <<>>, series |-> <<>>, series_index |-> <<>>,
     sweep_number |-> <<>>, sweep_dtype |-> "int64"]

EmptyNWBFile ==
    [devices |-> <<>>, icephys_electrodes |-> <<>>,
     stimulus |-> <<>>, acquisition |-> <<>>,
     sweep_table |-> EmptySweepTable]

Names(h, addrs) == {h[a].name : a \in Range(addrs)}

NumSeries(g) == Len(g.stimulus) + Len(g.acquisition)

\* (variant) the name is not looked at: the first object of the collection
GetFirst(h, addrs, name) == IF addrs = <<>> THEN Null ELSE addrs[1]

\* the object registered under name in a collection (get_stimulus,
\* get_acquisition, get_device, get_icephys_electrode); Null if none
GetByName(h, addrs, name) ==
    LET i == FirstIndex(LAMBDA a : h[a].name = name, addrs)
    IN  IF i = 0 THEN Null ELSE addrs[i]

(***************************************************************************)
(* Building the in-memory file (icephys In[3]..In[8])                      *)
(***************************************************************************)
\* nwbfile.create_device(name=...)
create_device(h, g, name) ==
    [heap |-> Append(h, Obj("Device", name, Null, Null, <<>>, -1)),
     g    |-> [g EXCEPT !.devices = Append(@, NewAddr(h))]]

\* nwbfile.create_icephys_electrode(name=..., device=device, ...)
create_icephys_electrode(h, g, name, device) ==
    [heap |-> Append(h, Obj("IntracellularElectrode", name, device, Null, <<>>, -1)),
     g    |-> [g EXCEPT !.icephys_electrodes = Append(@, NewAddr(h))]]

\* (variant) the counter is not advanced: the last id is given again
NextRowIdStuck(ids) == IF ids = <<>> THEN 0 ELSE Last(ids)

\* the row id given to the next row of a table whose id column is ids
NextRowId(ids) == Len(ids)

\* (variant) one row per sweep number: a series of a sweep that has a row
\* joins that row
add_entry_per_sweep(st, series, sweep) ==
    LET i == FirstIndex(LAMBDA r : st.sweep_number[r] = sweep,
                        [r \in 1..Len(st.id) |-> r])
    IN  IF i = 0
        THEN [st EXCEPT !.id           = Append(@, NextRowId(st.id)),
                        !.series       = Append(@, series),
                        !.series_index = Append(@, Len(st.series) + 1),
                        !.sweep_number = Append(@, sweep)]
        ELSE [st EXCEPT !.series =
                            SubSeq(@, 1, st.series_index[i]) \o <<series>>
                            \o SubSeq(@, st.series_index[i] + 1, Len(@)),
                        !.series_index =
                            [r \in 1..Len(@) |-> IF r >= i THEN @[r] + 1 ELSE @[r]]]

\* SweepTable.add_entry: one row per series, in the order the series are added
add_entry(st, series, sweep) ==
    [st EXCEPT !.id           = Append(@, NextRowId(st.id)),
               !.series       = Append(@, series),
               !.series_index = Append(@, Len(st.series) + 1),
               !.sweep_number = Append(@, sweep)]

\* CurrentClampStimulusSeries(...) / VoltageClampStimulusSeries(...) followed by
\* nwbfile.add_stimulus(series)
add_stimulus(h, g, name, data, electrode, sweep) ==
    [heap |-> Append(h, Obj("PatchClampSeries", name, Null, electrode, data, sweep)),
     g    |-> [g EXCEPT !.stimulus    = Append(@, NewAddr(h)),
                        !.sweep_table = add_entry(@, NewAddr(h), sweep)]]

\* CurrentClampSeries(...) / VoltageClampSeries(...) followed by
\* nwbfile.add_acquisition(series)
add_acquisition(h, g, name, data, electrode, sweep) ==
    [heap |-> Append(h, Obj("PatchClampSeries", name, Null, electrode, data, sweep)),
     g    |-> [g EXCEPT !.acquisition = Append(@, NewAddr(h)),
                        !.sweep_table = add_entry(@, NewAddr(h), sweep)]]

(***************************************************************************)
(* The persisted file: groups of named nodes; a reference to another       *)
(* container is stored as that container's path, never as a copy.          *)
(***************************************************************************)
DevicesPath    == "/general/devices"
ElectrodesPath == "/general/intracellular_ephys"
StimulusPath   == "/stimulus/presentation"
AcqPath        == "/acquisition"

NoLink == <<>>

NoFile ==
    [exists |-> FALSE, devices |-> <<>>, icephys_electrodes |-> <<>>,
     stimulus |-> <<>>, acquisition |-> <<>>,
     sweep_table |-> [id |-> <<>>, series |-> <<>>, series_index |-> <<>>,
                      sweep_number |-> <<>>, sweep_dtype |-> "uint64"]]

\* NWBHDF5IO(path, 'w') creates the file, truncating what was there
TruncatedFile == [NoFile EXCEPT !.exists = TRUE]

\* the path under which write stores the container at address a
PathOf(h, g, a) ==
    IF a \in Range(g.devices) THEN <<DevicesPath, h[a].name>>
    ELSE IF a \in Range(g.icephys_electrodes) THEN <<ElectrodesPath, h[a].name>>
    ELSE IF a \in Range(g.stimulus) THEN <<StimulusPath, h[a].name>>
    ELSE IF a \in Range(g.acquisition) THEN <<AcqPath, h[a].name>>
    ELSE NoLink

LinkTo(h, g, a) == IF a = Null THEN NoLink ELSE PathOf(h, g, a)

\* (variant) the write loses the last sample of every dataset
NodeShortData(h, g, a) ==
    [kind |-> h[a].kind, name |-> h[a].name,
     data |-> SubSeq(h[a].data, 1, Len(h[a].data) - 1),
     sweep_number |-> h[a].sweep_number,
     device |-> LinkTo(h, g, h[a].device),
     electrode |-> LinkTo(h, g, h[a].electrode)]

\* one container, written once at its own path
Node(h, g, a) ==
    [kind |-> h[a].kind, name |-> h[a].name, data |-> h[a].data,
     sweep_number |-> h[a].sweep_number,
     device |-> LinkTo(h, g, h[a].device),
     electrode |-> LinkTo(h, g, h[a].electrode)]

WriteGroup(h, g, addrs) == [i \in 1..Len(addrs) |-> Node(h, g, addrs[i])]

\* the sweep_number column is declared uint32 at least: int64 values are
\* stored as uint64 (the UserWarning of Out[9])
WidenDtype(dtype) == IF dtype = "int64" THEN "uint64" ELSE dtype

WriteSweepTable(h, g, st) ==
    [id           |-> st.id,
     series       |-> [i \in 1..Len(st.series) |-> PathOf(h, g, st.series[i])],
     series_index |-> st.series_index,
     sweep_number |-> st.sweep_number,
     sweep_dtype  |-> WidenDtype(st.sweep_dtype)]

\* io.write(nwbfile)
write(h, g) ==
    [exists             |-> TRUE,
     devices            |-> WriteGroup(h, g, g.devices),
     icephys_electrodes |-> WriteGroup(h, g, g.icephys_electrodes),
     stimulus           |-> WriteGroup(h, g, g.stimulus),
     acquisition        |-> WriteGroup(h, g, g.acquisition),
     sweep_table        |-> WriteSweepTable(h, g, g.sweep_table)]

WideningWarning ==
    "Value with data type int64 is being converted to data type uint64 (min specification: uint32)."

\* (variant) the conversion is made without a word
WriteSilently(g) == <<>>

\* the warnings io.write(nwbfile) emits
WriteWarnings(g) ==
    IF g.sweep_table.sweep_dtype = "int64" /\ Len(g.sweep_table.sweep_number) > 0
    THEN <<WideningWarning>> ELSE <<>>

(***************************************************************************)
(* io.read(): every persisted container becomes one new object; a stored   *)
(* path resolves to the object built for that path.                        *)
(***************************************************************************)
\* the persisted containers in the order read builds them, with their paths
FilePaths(f) ==
    [i \in 1..Len(f.devices) |-> <<DevicesPath, f.devices[i].name>>]
    \o [i \in 1..Len(f.icephys_electrodes) |->
            <<ElectrodesPath, f.icephys_electrodes[i].name>>]
    \o [i \in 1..Len(f.stimulus) |-> <<StimulusPath, f.stimulus[i].name>>]
    \o [i \in 1..Len(f.acquisition) |-> <<AcqPath, f.acquisition[i].name>>]

FileNodes(f) == f.devices \o f.icephys_electrodes \o f.stimulus \o f.acquisition

\* the address of the object read builds for the container at path p
Resolve(h, f, p) ==
    IF p = NoLink THEN Null
    ELSE Len(h) + FirstIndex(LAMBDA q : q = p, FilePaths(f))

ReadNode(h, f, n) ==
    Obj(n.kind, n.name, Resolve(h, f, n.device), Resolve(h, f, n.electrode),
        n.data, n.sweep_number)

ReadGroup(h, f, group, path) ==
    [i \in 1..Len(group) |-> Resolve(h, f, <<path, group[i].name>>)]

\* (variant) the sweep numbers come back in the reverse order
ReadSweepTableReversed(h, f, st) ==
    [id           |-> st.id,
     series       |-> [i \in 1..Len(st.series) |-> Resolve(h, f, st.series[i])],
     series_index |-> st.series_index,
     sweep_number |-> [i \in 1..Len(st.sweep_number) |->
                          st.sweep_number[Len(st.sweep_number) + 1 - i]],
     sweep_dtype  |-> st.sweep_dtype]

ReadSweepTable(h, f, st) ==
    [id           |-> st.id,
     series       |-> [i \in 1..Len(st.series) |-> Resolve(h, f, st.series[i])],
     series_index |-> st.series_index,
     sweep_number |-> st.sweep_number,
     sweep_dtype  |-> st.sweep_dtype]

\* (variant) the electrode collection is built from copies of its own: the
\* series keep pointing at the first objects
read_copies(h, f) ==
    LET nodes  == FileNodes(f)
        first  == h \o [i \in 1..Len(nodes) |-> ReadNode(h, f, nodes[i])]
        copies == [i \in 1..Len(f.icephys_electrodes) |->
                      ReadNode(h, f, f.icephys_electrodes[i])]
    IN  [heap |-> first \o copies,
         g    |-> [devices            |-> ReadGroup(h, f, f.devices, DevicesPath),
                   icephys_electrodes |-> [i \in 1..Len(copies) |-> Len(first) + i],
                   stimulus           |-> ReadGroup(h, f, f.stimulus, StimulusPath),
                   acquisition        |-> ReadGroup(h, f, f.acquisition, AcqPath),
                   sweep_table        |-> ReadSweepTable(h, f, f.sweep_table)]]

read(h, f) ==
    [heap |-> h \o [i \in 1..Len(FileNodes(f)) |-> ReadNode(h, f, FileNodes(f)[i])],
     g    |-> [devices            |-> ReadGroup(h, f, f.devices, DevicesPath),
               icephys_electrodes |-> ReadGroup(h, f, f.icephys_electrodes, ElectrodesPath),
               stimulus           |-> ReadGroup(h, f, f.stimulus, StimulusPath),
               acquisition        |-> ReadGroup(h, f, f.acquisition, AcqPath),
               sweep_table        |-> ReadSweepTable(h, f, f.sweep_table)]]

(***************************************************************************)
(* Queries of the reading cells (icephys In[11]..In[26])                   *)
(***************************************************************************)
\* the row indices of a sweep table whose sweep_number is sweep, by the
\* table's order: rows 1..n are appended in turn, matching rows are kept
RECURSIVE RowsOfSweep(_, _, _)
RowsOfSweep(st, sweep, n) ==
    IF n = 0 THEN <<>>
    ELSE LET before == RowsOfSweep(st, sweep, n - 1)
         IN  IF st.sweep_number[n] = sweep THEN Append(before, n) ELSE before

\* the series of row i of the ragged series column
SeriesOfRow(st, i) ==
    LET lo == IF i = 1 THEN 0 ELSE st.series_index[i - 1]
    IN  SubSeq(st.series, lo + 1, st.series_index[i])

RECURSIVE Flatten(_)
Flatten(ss) == IF ss = <<>> THEN <<>> ELSE Head(ss) \o Flatten(Tail(ss))

\* (variant) the scan stops at the first row of the sweep
get_series_first(st, sweep) ==
    LET rows == RowsOfSweep(st, sweep, Len(st.sweep_number))
    IN  IF rows = <<>> THEN <<>> ELSE SeriesOfRow(st, rows[1])

\* sweep_table.get_series(sweep): the series of the rows of that sweep
get_series(st, sweep) ==
    LET rows == RowsOfSweep(st, sweep, Len(st.sweep_number))
    IN  Flatten([k \in 1..Len(rows) |-> SeriesOfRow(st, rows[k])])

\* sweep_table.to_dataframe(): one record per row, in row order
to_dataframe(st) ==
    [i \in 1..Len(st.id) |->
        [id |-> st.id[i], series |-> SeriesOfRow(st, i),
         sweep_number |-> st.sweep_number[i]]]

NoOut == [call |-> "", on |-> "", name |-> "", key |-> -1, value |-> <<>>]

Out(call, on, name, key, value) ==
    [call |-> call, on |-> on, name |-> name, key |-> key, value |-> value]

(***************************************************************************)
(* The NWBHDF5IO handles                                                   *)
(***************************************************************************)
Handle(path, mode) == [path |-> path, mode |-> mode, open |-> TRUE, wrote |-> FALSE]

\* io.write(...) has run on the handle of the with block (the last one opened)
MarkWritten(handles) == [handles EXCEPT ![Len(handles)].wrote = TRUE]

\* leaving a with block closes its handle (the last one opened)
CloseLast(handles) == [handles EXCEPT ![Len(handles)].open = FALSE]

IcephysPath == "My_First_Icephys_File.nwb"
OphysPath   == "ecephys_tutorial.nwb"

(***************************************************************************)
(* ophys notebook: the in-memory file, by value                            *)
(***************************************************************************)
SubjectId      == "0001"
TrialTimes     == {<<"1.0", "5.0">>, <<"6.0", "10.0">>}   \* start_time, stop_time
TrialCorrect   == {"True", "False"}
RoiCorners     == {<<0, 0>>, <<3, 7>>}     \* (x, y) of np.random.randint(0, 95)
MaskKinds      == {"image_mask", "pixel_mask"}
PatchSide      == 5                        \* image_mask[x:x+5, y:y+5] = 1

NoTable == [colnames |-> <<>>, id |-> <<>>, columns |-> <<>>]

\* TimeIntervals('trials'): its required columns, no rows
NewTrials ==
    [colnames |-> <<"start_time", "stop_time">>, id |-> <<>>,
     columns |-> << <<>>, <<>> >>]

EmptyNwb ==
    [subject |-> "", processing |-> <<>>, trials |-> NoTable,
     devices |-> <<>>, imaging_planes |-> <<>>, acquisition |-> <<>>,
     plane_segmentations |-> <<>>, roi_response_series |-> <<>>]

NoEcephysFile == [exists |-> FALSE, root |-> EmptyNwb]

NoRegion == [table |-> "", data |-> <<>>, description |-> ""]

\* nwb.create_processing_module(name=...) and module.add(interface)
create_processing_module(g, name, interface) ==
    [g EXCEPT !.processing = Append(@, [name |-> name, interfaces |-> <<interface>>])]

\* mod.add(interface) on the last module created
module_add(g, interface) ==
    [g EXCEPT !.processing[Len(g.processing)].interfaces = Append(@, interface)]

\* nwb.add_trial_column(name=..., description=...), called before any
\* add_trial: the trials table is created on first use, the column is empty
add_trial_column(g, name) ==
    LET t == IF g.trials = NoTable THEN NewTrials ELSE g.trials
    IN  [g EXCEPT !.trials = [t EXCEPT !.colnames = Append(@, name),
                                       !.columns  = Append(@, <<>>)]]

\* (variant) the row id is given and the required columns are filled, the
\* column added by add_trial_column is not
add_trial_required_only(g, values) ==
    LET t == g.trials
    IN  [g EXCEPT !.trials =
            [t EXCEPT !.id = Append(@, NextRowId(t.id)),
                      !.columns = [c \in 1..Len(t.columns) |->
                                      IF c <= Len(NewTrials.colnames)
                                      THEN Append(t.columns[c], values[c])
                                      ELSE t.columns[c]]]]

\* nwb.add_trial(start_time=..., stop_time=..., correct=...): values is the
\* row in the order of colnames
add_trial(g, values) ==
    LET t == g.trials
    IN  [g EXCEPT !.trials =
            [t EXCEPT !.id = Append(@, NextRowId(t.id)),
                      !.columns = [c \in 1..Len(t.columns) |->
                                      Append(t.columns[c], values[c])]]]

\* nwb.add_device(Device(name)) and nwb.create_imaging_plane(name=..., device=device)
create_imaging_plane(g, device, name) ==
    [g EXCEPT !.devices = Append(@, device),
              !.imaging_planes = Append(@, [name |-> name, device |-> device])]

\* nwb.add_acquisition(TwoPhotonSeries(name=..., imaging_plane=imaging_plane))
add_two_photon_series(g, name, plane, external) ==
    [g EXCEPT !.acquisition =
        Append(@, [name |-> name, imaging_plane |-> plane, external_file |-> external])]

\* img_seg.create_plane_segmentation(name=..., imaging_plane=..., reference_images=...)
create_plane_segmentation(g, name, plane, images) ==
    [g EXCEPT !.plane_segmentations =
        Append(@, [name |-> name, imaging_plane |-> plane, reference_images |-> images,
                   colnames |-> <<>>, id |-> <<>>, image_mask |-> <<>>,
                   pixel_mask |-> <<>>, pixel_mask_index |-> <<>>])]

\* image_mask = np.zeros((100, 100)); image_mask[x:x+5, y:y+5] = 1: the
\* pixels set to 1
ImageMask(x, y) ==
    {<<ix, iy>> : ix \in x..(x + PatchSide - 1), iy \in y..(y + PatchSide - 1)}

\* for ix in range(x, x+5): for iy in range(y, y+5): pixel_mask.append((ix, iy, 1))
PixelMask(x, y) ==
    [k \in 1..(PatchSide * PatchSide) |->
        <<x + ((k - 1) \div PatchSide), y + ((k - 1) % PatchSide), 1>>]

\* (variant) any kind of mask is taken
RoiNeverRejected(ps, kind) == FALSE

\* "You cannot add some by image_mask and some by pixel_mask": a table that
\* has rows takes only the kind of mask its rows have
RoiRejected(ps, kind) == Len(ps.id) > 0 /\ kind \notin Range(ps.colnames)

\* (variant) the index column takes the length of the row, not its end
add_roi_row_lengths(ps, kind, x, y) ==
    LET named == IF kind \in Range(ps.colnames) THEN ps
                 ELSE [ps EXCEPT !.colnames = Append(@, kind)]
        row   == [named EXCEPT !.id = Append(@, NextRowId(ps.id))]
    IN  IF kind = "image_mask"
        THEN [row EXCEPT !.image_mask = Append(@, ImageMask(x, y))]
        ELSE [row EXCEPT !.pixel_mask = @ \o PixelMask(x, y),
                         !.pixel_mask_index = Append(@, Len(PixelMask(x, y)))]

\* ps.add_roi(image_mask=...) / ps.add_roi(pixel_mask=...), when accepted
add_roi(ps, kind, x, y) ==
    LET named == IF kind \in Range(ps.colnames) THEN ps
                 ELSE [ps EXCEPT !.colnames = Append(@, kind)]
        row   == [named EXCEPT !.id = Append(@, NextRowId(ps.id))]
    IN  IF kind = "image_mask"
        THEN [row EXCEPT !.image_mask = Append(@, ImageMask(x, y))]
        ELSE [row EXCEPT !.pixel_mask = @ \o PixelMask(x, y),
                         !.pixel_mask_index =
                             Append(@, Len(ps.pixel_mask) + Len(PixelMask(x, y)))]

\* (variant) the region is counted from the end of the table
create_roi_table_region_past_end(ps, region, description) ==
    [table |-> ps.name,
     data |-> [k \in 1..Len(region) |-> region[k] + Len(ps.id)],
     description |-> description]

\* ps.create_roi_table_region(description=..., region=[0, 1])
create_roi_table_region(ps, region, description) ==
    [table |-> ps.name, data |-> region, description |-> description]

\* fl.create_roi_response_series(name=..., rois=rt_region, ...)
create_roi_response_series(g, name, rois) ==
    [g EXCEPT !.roi_response_series = Append(@, [name |-> name, rois |-> rois])]

\* io.write(nwb): the file holds the graph as it is when written
write_nwb(g) == [exists |-> TRUE, root |-> g]

(***************************************************************************)
(* Initial state                                                           *)
(***************************************************************************)
Init ==
    /\ nb \in {"icephys", "ophys"}
    /\ pc = IF nb = "icephys" THEN "create_device" ELSE "subject"
    /\ heap = <<>>
    /\ nwbfile = EmptyNWBFile
    /\ read_nwbfile = EmptyNWBFile
    /\ file = NoFile
    /\ nwb = EmptyNwb
    /\ ecephys_file = NoEcephysFile
    /\ rt_region = NoRegion
    /\ io = <<>>
    /\ warnings = <<>>
    /\ out = NoOut
    /\ err = ""

(***************************************************************************)
(* icephys notebook                                                        *)
(***************************************************************************)
\* In[3]
CreateDevice ==
    /\ nb = "icephys" /\ pc = "create_device"
    /\ \E name \in DeviceNames :
         LET r == create_device(heap, nwbfile, name)
         IN  heap' = r.heap /\ nwbfile' = r.g
    /\ pc' = "create_electrode"
    /\ UNCHANGED <<nb, read_nwbfile, file, ophys_vars, io, warnings, out, err>>

\* In[4]
CreateElectrode ==
    /\ nb = "icephys" /\ pc = "create_electrode"
    /\ Len(nwbfile.icephys_electrodes) < Len(ElectrodeNames)
    /\ \E device \in Range(nwbfile.devices) :
         LET name == ElectrodeNames[Len(nwbfile.icephys_electrodes) + 1]
             r    == create_icephys_electrode(heap, nwbfile, name, device)
         IN  heap' = r.heap /\ nwbfile' = r.g
    /\ pc' \in {"create_electrode", "add_stimulus"}
    /\ UNCHANGED <<nb, read_nwbfile, file, ophys_vars, io, warnings, out, err>>

\* In[5], In[6]
AddStimulus ==
    /\ nb = "icephys" /\ pc = "add_stimulus"
    /\ \E name \in StimNames \ Names(heap, nwbfile.stimulus),
          data \in StimData,
          electrode \in Range(nwbfile.icephys_electrodes),
          sweep \in SweepNumbers :
         LET r == add_stimulus(heap, nwbfile, name, data, electrode, sweep)
         IN  heap' = r.heap /\ nwbfile' = r.g
    /\ pc' \in {"add_stimulus", "add_acquisition"}
    /\ UNCHANGED <<nb, read_nwbfile, file, ophys_vars, io, warnings, out, err>>

\* In[7], In[8]
AddAcquisition ==
    /\ nb = "icephys" /\ pc = "add_acquisition"
    /\ \E name \in AcqNames \ Names(heap, nwbfile.acquisition),
          data \in AcqData,
          electrode \in Range(nwbfile.icephys_electrodes),
          sweep \in SweepNumbers :
         LET r == add_acquisition(heap, nwbfile, name, data, electrode, sweep)
         IN  heap' = r.heap /\ nwbfile' = r.g
    /\ UNCHANGED <<nb, pc, read_nwbfile, file, ophys_vars, io, warnings, out, err>>

\* In[9]: with NWBHDF5IO('My_First_Icephys_File.nwb', 'w') as io:
IcephysWithEnter ==
    /\ nb = "icephys" /\ pc = "add_acquisition"
    /\ io' = Append(io, Handle(IcephysPath, "w"))
    /\ file' = TruncatedFile
    /\ pc' = "with_write"
    /\ UNCHANGED <<nb, heap, nwbfile, read_nwbfile, ophys_vars, warnings, out, err>>

\* In[9]: io.write(nwbfile)
IoWrite ==
    /\ nb = "icephys" /\ pc = "with_write"
    /\ file' = write(heap, nwbfile)
    /\ warnings' = warnings \o WriteWarnings(nwbfile)
    /\ io' = MarkWritten(io)
    /\ pc' = "with_exit"
    /\ UNCHANGED <<nb, heap, nwbfile, read_nwbfile, ophys_vars, out, err>>

\* io.write(...) raises (the disk is full): icephys In[9], ophys cell 11
IoWriteRaises ==
    /\ pc = "with_write"
    /\ err' = "OSError"
    /\ pc' = "with_raise"
    /\ UNCHANGED <<nb, heap, nwbfile, read_nwbfile, file, ophys_vars, io, warnings, out>>

\* In[9]: the with block is left, normally or by the exception
WithExit ==
    /\ pc \in {"with_exit", "with_raise"}
    /\ io' = CloseLast(io)
    /\ pc' = IF pc = "with_raise" THEN "aborted"
             ELSE IF nb = "icephys" THEN "open_read" ELSE "add_trial_column"
    /\ UNCHANGED <<nb, heap, nwbfile, read_nwbfile, file, ophys_vars, warnings, out, err>>

\* In[10]: io = NWBHDF5IO('My_First_Icephys_File.nwb', 'r')
OpenRead ==
    /\ nb = "icephys" /\ pc = "open_read"
    /\ io' = Append(io, Handle(IcephysPath, "r"))
    /\ pc' = "io_read"
    /\ UNCHANGED <<nb, heap, nwbfile, read_nwbfile, file, ophys_vars, warnings, out, err>>

\* In[10]: read_nwbfile = io.read()
IoRead ==
    /\ nb = "icephys" /\ pc = "io_read"
    /\ LET r == read(heap, file)
       IN  heap' = r.heap /\ read_nwbfile' = r.g
    /\ pc' = "query"
    /\ UNCHANGED <<nb, nwbfile, file, ophys_vars, io, warnings, out, err>>

\* In[12]: read_nwbfile.get_stimulus(name).data[()]
GetStimulus ==
    /\ nb = "icephys" /\ pc = "query"
    /\ \E name \in Names(heap, read_nwbfile.stimulus) :
         out' = Out("get_stimulus", "read_nwbfile", name, -1,
                    heap[GetByName(heap, read_nwbfile.stimulus, name)].data)
    /\ UNCHANGED <<nb, pc, heap, nwbfile, read_nwbfile, file, ophys_vars, io, warnings, err>>

\* In[14]: read_nwbfile.get_acquisition(name).data[()]
GetAcquisition ==
    /\ nb = "icephys" /\ pc = "query"
    /\ \E name \in Names(heap, read_nwbfile.acquisition) :
         out' = Out("get_acquisition", "read_nwbfile", name, -1,
                    heap[GetByName(heap, read_nwbfile.acquisition, name)].data)
    /\ UNCHANGED <<nb, pc, heap, nwbfile, read_nwbfile, file, ophys_vars, io, warnings, err>>

\* In[22]: nwbfile.sweep_table.get_series(sweep), for a sweep number in the table
GetSeries ==
    /\ nb = "icephys" /\ pc = "query"
    /\ \E sweep \in Range(nwbfile.sweep_table.sweep_number) :
         out' = Out("get_series", "nwbfile", "", sweep,
                    get_series(nwbfile.sweep_table, sweep))
    /\ UNCHANGED <<nb, pc, heap, nwbfile, read_nwbfile, file, ophys_vars, io, warnings, err>>

\* In[23], In[24]: list(read_nwbfile.sweep_table.to_dataframe().sweep_number)
ToDataframe ==
    /\ nb = "icephys" /\ pc = "query"
    /\ out' = Out("to_dataframe", "read_nwbfile", "", -1,
                  SeqMap(LAMBDA row : row.sweep_number,
                         to_dataframe(read_nwbfile.sweep_table)))
    /\ UNCHANGED <<nb, pc, heap, nwbfile, read_nwbfile, file, ophys_vars, io, warnings, err>>

\* the last cell has run
IcephysEnd ==
    /\ nb = "icephys" /\ pc = "query"
    /\ pc' = "done"
    /\ UNCHANGED <<nb, heap, nwbfile, read_nwbfile, file, ophys_vars, io, warnings, out, err>>

(***************************************************************************)
(* ophys notebook                                                          *)
(***************************************************************************)
\* cell 6: nwb.subject = Subject(subject_id='0001', ...)
SetSubject ==
    /\ nb = "ophys" /\ pc = "subject"
    /\ nwb' = [nwb EXCEPT !.subject = SubjectId]
    /\ pc' = "behavior"
    /\ UNCHANGED <<nb, icephys_vars, ecephys_file, rt_region, io, err>>

\* cells 8-10: SpatialSeries, Position, create_processing_module('behavior'), add
CreateBehaviorModule ==
    /\ nb = "ophys" /\ pc = "behavior"
    /\ nwb' = create_processing_module(nwb, "behavior", "Position")
    /\ pc' = "with_enter"
    /\ UNCHANGED <<nb, icephys_vars, ecephys_file, rt_region, io, err>>

\* cell 11: with NWBHDF5IO('ecephys_tutorial.nwb', 'w') as io:
OphysWithEnter ==
    /\ nb = "ophys" /\ pc = "with_enter"
    /\ io' = Append(io, Handle(OphysPath, "w"))
    /\ ecephys_file' = [NoEcephysFile EXCEPT !.exists = TRUE]
    /\ pc' = "with_write"
    /\ UNCHANGED <<nb, icephys_vars, nwb, rt_region, err>>

\* cell 11: io.write(nwb)
OphysIoWrite ==
    /\ nb = "ophys" /\ pc = "with_write"
    /\ ecephys_file' = write_nwb(nwb)
    /\ io' = MarkWritten(io)
    /\ pc' = "with_exit"
    /\ UNCHANGED <<nb, icephys_vars, nwb, rt_region, err>>

\* cell 12: nwb.add_trial_column(name='correct', ...)
AddTrialColumn ==
    /\ nb = "ophys" /\ pc = "add_trial_column"
    /\ nwb' = add_trial_column(nwb, "correct")
    /\ pc' = "add_trial"
    /\ UNCHANGED <<nb, icephys_vars, ecephys_file, rt_region, io, err>>

\* (variant) the trial is also written through to the file
AddTrialWriteThrough ==
    /\ nb = "ophys" /\ pc = "add_trial"
    /\ Len(nwb.trials.id) < MaxTrials
    /\ \E times \in TrialTimes, correct \in TrialCorrect :
         nwb' = add_trial(nwb, times \o <<correct>>)
    /\ ecephys_file' = write_nwb(nwb')
    /\ UNCHANGED <<nb, pc, icephys_vars, rt_region, io, err>>

\* cell 12: nwb.add_trial(start_time=..., stop_time=..., correct=...)
AddTrial ==
    /\ nb = "ophys" /\ pc = "add_trial"
    /\ Len(nwb.trials.id) < MaxTrials
    /\ \E times \in TrialTimes, correct \in TrialCorrect :
         nwb' = add_trial(nwb, times \o <<correct>>)
    /\ UNCHANGED <<nb, pc, icephys_vars, ecephys_file, rt_region, io, err>>

\* cell 13: Device('Microscope001'), nwb.add_device, nwb.create_imaging_plane
CreateImagingPlane ==
    /\ nb = "ophys" /\ pc = "add_trial"
    /\ nwb' = create_imaging_plane(nwb, "Microscope001", "ImagingPlane")
    /\ pc' = "add_acquisition"
    /\ UNCHANGED <<nb, icephys_vars, ecephys_file, rt_region, io, err>>

\* cell 14: nwb.add_acquisition(image_series1); nwb.add_acquisition(image_series2)
AddTwoPhotonSeries ==
    /\ nb = "ophys" /\ pc = "add_acquisition"
    /\ nwb' = add_two_photon_series(
                  add_two_photon_series(nwb, "TwoPhotonSeries1", "ImagingPlane", <<>>),
                  "TwoPhotonSeries2", "ImagingPlane", <<"images.tiff">>)
    /\ pc' = "create_ps"
    /\ UNCHANGED <<nb, icephys_vars, ecephys_file, rt_region, io, err>>

\* cell 15: create_processing_module('ophys'), ImageSegmentation,
\* create_plane_segmentation('PlaneSegmentation')
CreatePlaneSegmentation ==
    /\ nb = "ophys" /\ pc = "create_ps"
    /\ nwb' = create_plane_segmentation(
                  create_processing_module(nwb, "ophys", "ImageSegmentation"),
                  "PlaneSegmentation", "ImagingPlane", "TwoPhotonSeries1")
    /\ pc' = "add_roi"
    /\ UNCHANGED <<nb, icephys_vars, ecephys_file, rt_region, io, err>>

\* the table the running add_roi loop fills
LoopTable == IF pc = "add_roi" THEN 1 ELSE 2

\* cells 16, 17: one iteration of the loop, ps.add_roi(<kind>=mask)
AddRoi ==
    /\ nb = "ophys" /\ pc \in {"add_roi", "add_roi2"}
    /\ Len(nwb.plane_segmentations[LoopTable].id) < NumRois
    /\ \E kind \in MaskKinds, corner \in RoiCorners :
         /\ ~RoiRejected(nwb.plane_segmentations[LoopTable], kind)
         /\ nwb' = [nwb EXCEPT !.plane_segmentations[LoopTable] =
                        add_roi(@, kind, corner[1], corner[2])]
    /\ UNCHANGED <<nb, pc, icephys_vars, ecephys_file, rt_region, io, err>>

\* cells 16, 17: add_roi with the kind of mask the table does not have raises
AddRoiRejected ==
    /\ nb = "ophys" /\ pc \in {"add_roi", "add_roi2"}
    /\ Len(nwb.plane_segmentations[LoopTable].id) < NumRois
    /\ \E kind \in MaskKinds : RoiRejected(nwb.plane_segmentations[LoopTable], kind)
    /\ err' = "ValueError"
    /\ pc' = "aborted"
    /\ UNCHANGED <<nb, icephys_vars, ophys_vars, io>>

\* cell 17: create_plane_segmentation('PlaneSegmentation2')
CreatePlaneSegmentation2 ==
    /\ nb = "ophys" /\ pc = "add_roi"
    /\ Len(nwb.plane_segmentations[1].id) = NumRois
    /\ nwb' = create_plane_segmentation(nwb, "PlaneSegmentation2", "ImagingPlane",
                                        "TwoPhotonSeries1")
    /\ pc' = "add_roi2"
    /\ UNCHANGED <<nb, icephys_vars, ecephys_file, rt_region, io, err>>

\* cell 20: fl = Fluorescence(); mod.add(fl)
AddFluorescence ==
    /\ nb = "ophys" /\ pc = "add_roi2"
    /\ Len(nwb.plane_segmentations[2].id) = NumRois
    /\ nwb' = module_add(nwb, "Fluorescence")
    /\ pc' = "create_region"
    /\ UNCHANGED <<nb, icephys_vars, ecephys_file, rt_region, io, err>>

\* cell 22: rt_region = ps.create_roi_table_region(region=[0,1])
CreateRoiTableRegion ==
    /\ nb = "ophys" /\ pc = "create_region"
    /\ rt_region' = create_roi_table_region(nwb.plane_segmentations[1], <<0, 1>>,
                                            "the first of two ROIs")
    /\ pc' = "create_rrs"
    /\ UNCHANGED <<nb, icephys_vars, nwb, ecephys_file, io, err>>

\* cell 24: fl.create_roi_response_series(name='RoiResponseSeries', rois=rt_region)
CreateRoiResponseSeries ==
    /\ nb = "ophys" /\ pc = "create_rrs"
    /\ nwb' = create_roi_response_series(nwb, "RoiResponseSeries", rt_region)
    /\ pc' = "done"
    /\ UNCHANGED <<nb, icephys_vars, ecephys_file, rt_region, io, err>>

Next ==
    \/ SetSubject
    \/ CreateBehaviorModule
    \/ OphysWithEnter
    \/ OphysIoWrite
    \/ AddTrialColumn
    \/ AddTrial
    \/ CreateImagingPlane
    \/ AddTwoPhotonSeries
    \/ CreatePlaneSegmentation
    \/ AddRoi
    \/ AddRoiRejected
    \/ CreatePlaneSegmentation2
    \/ AddFluorescence
    \/ CreateRoiTableRegion
    \/ CreateRoiResponseSeries
    \/ CreateDevice
    \/ CreateElectrode
    \/ AddStimulus
    \/ AddAcquisition
    \/ IcephysWithEnter
    \/ IoWrite
    \/ IoWriteRaises
    \/ WithExit
    \/ OpenRead
    \/ IoRead
    \/ GetStimulus
    \/ GetAcquisition
    \/ GetSeries
    \/ ToDataframe
    \/ IcephysEnd

Spec == Init /\ [][Next]_vars

(***************************************************************************)
(* Properties                                                              *)
(***************************************************************************)
HasRead == nb = "icephys" /\ pc \in {"query", "done"}

NameSeq(h, addrs) == [i \in 1..Len(addrs) |-> h[addrs[i]].name]

\* the series of a graph: the two collections and the sweep table's rows
SeriesRefs(g) ==
    Range(g.stimulus) \cup Range(g.acquisition) \cup Range(g.sweep_table.series)

\* two collections hold the same names in the same order, and under each
\* name the same data, the same sweep number and a reference to an
\* electrode / device of the same name
SameCollection(h, as, bs) ==
    /\ NameSeq(h, as) = NameSeq(h, bs)
    /\ \A i \in 1..Len(as) :
         LET a == h[as[i]]
             b == h[bs[i]]
         IN  /\ a.kind = b.kind
             /\ a.data = b.data
             /\ a.sweep_number = b.sweep_number
             /\ (a.electrode = Null) = (b.electrode = Null)
             /\ a.electrode # Null => h[a.electrode].name = h[b.electrode].name
             /\ (a.device = Null) = (b.device = Null)
             /\ a.device # Null => h[a.device].name = h[b.device].name

\* two sweep tables have the same ids, the same sweep numbers, the same row
\* bounds, and rows whose references resolve to series of the same name
SameSweepTable(h, s, t) ==
    /\ s.id = t.id
    /\ s.sweep_number = t.sweep_number
    /\ s.series_index = t.series_index
    /\ NameSeq(h, s.series) = NameSeq(h, t.series)

C2_SharedIdentity ==
    HasRead =>
        /\ Len(file.icephys_electrodes) = Len(nwbfile.icephys_electrodes)
        /\ Len(file.devices) = Len(nwbfile.devices)
        /\ \A i \in 1..Len(FileNodes(file)) :
             LET n == FileNodes(file)[i]
             IN  /\ n.electrode # NoLink => n.electrode \in Range(FilePaths(file))
                 /\ n.device # NoLink => n.device \in Range(FilePaths(file))
        /\ \A a \in SeriesRefs(read_nwbfile) :
             /\ heap[a].electrode =
                    GetByName(heap, read_nwbfile.icephys_electrodes,
                              heap[heap[a].electrode].name)
             /\ a \in Range(read_nwbfile.stimulus) \cup Range(read_nwbfile.acquisition)
        /\ \A e \in Range(read_nwbfile.icephys_electrodes) :
             heap[e].device =
                 GetByName(heap, read_nwbfile.devices, heap[heap[e].device].name)
        /\ \A a \in SeriesRefs(read_nwbfile)
                    \cup Range(read_nwbfile.icephys_electrodes)
                    \cup Range(read_nwbfile.devices) :
             a \notin SeriesRefs(nwbfile) \cup Range(nwbfile.icephys_electrodes)
                      \cup Range(nwbfile.devices)

C2_Witness ==
    /\ HasRead
    /\ Len(read_nwbfile.icephys_electrodes) = 2
    /\ \E a \in Range(read_nwbfile.stimulus), b \in Range(read_nwbfile.acquisition) :
         /\ heap[a].electrode = heap[b].electrode
         /\ heap[a].electrode = read_nwbfile.icephys_electrodes[1]
         /\ a \in Range(read_nwbfile.sweep_table.series)

\* the rows of a sweep table that carry the sweep number
RowsWithSweep(st, sweep) == {i \in 1..Len(st.id) : st.sweep_number[i] = sweep}

\* r lists exactly the series of the rows of st that carry sweep, in row order
IsGroupOf(r, st, sweep) ==
    /\ Len(r) = Cardinality(RowsWithSweep(st, sweep))
    /\ \A i \in RowsWithSweep(st, sweep) : st.series[i] \in Range(r)
    /\ \A j \in 1..Len(r) :
         \E i \in RowsWithSweep(st, sweep) : st.series[i] = r[j]
    /\ \A j, k \in 1..Len(r) :
         j < k => \E i, l \in 1..Len(st.id) :
                     i < l /\ st.series[i] = r[j] /\ st.series[l] = r[k]

OneRowPerSeries(h, g) ==
    LET st == g.sweep_table
    IN  /\ Len(st.id) = NumSeries(g)
        /\ Len(st.sweep_number) = NumSeries(g)
        /\ st.series = g.stimulus \o g.acquisition
        /\ \A i \in 1..Len(st.sweep_number) :
             st.sweep_number[i] = h[st.series[i]].sweep_number

(* C4: the sweep_number column holds one value per series stored: every    *)
(* add_stimulus / add_acquisition appends one row (the series, its sweep   *)
(* number), so the table lists the series in the order they were added     *)
(* (the stimuli, then the responses), before the write and after the read; *)
(* to_dataframe lists the sweep numbers row by row.                        *)
C4_OneRowPerSeries ==
    /\ OneRowPerSeries(heap, nwbfile)
    /\ OneRowPerSeries(heap, read_nwbfile)
    /\ (out.call = "to_dataframe" =>
            out.value = [i \in 1..NumSeries(nwbfile) |->
                            heap[(nwbfile.stimulus \o nwbfile.acquisition)[i]].sweep_number])

C4_Witness ==
    /\ out.call = "to_dataframe" /\ out.value = <<0, 1, 0, 1>>
    /\ NameSeq(heap, read_nwbfile.sweep_table.series)
           = <<"CC_Stim_Sweep0", "VC_Stim_Sweep1", "CC_Resp_Sweep0", "VC_Resp_Sweep1">>
    /\ read_nwbfile.sweep_table.id = <<0, 1, 2, 3>>

\* the notebook has run to its end, or a cell raised and the run stopped
SessionComplete == pc \in {"done", "aborted"}

\* io.write has completed on a handle of the file at path
Written(path) == \E i \in 1..Len(io) : io[i].path = path /\ io[i].wrote

(* C6: every NWBHDF5IO handle that was opened, for writing or for reading, *)
(* is closed when the session is complete, also when a write raised.       *)
(* (The icephys notebook ends with the handle of In[10] open.)             *)
C6_HandlesReleased ==
    SessionComplete => \A i \in 1..Len(io) : ~io[i].open

(* C7: a graph is not mutated after it has been written: no step that      *)
(* follows the io.write of a graph appends a row, adds a column or         *)
(* registers a container in that graph.  (The ophys notebook writes nwb    *)
(* in cell 11 and builds the trials, the imaging plane, the ROIs and the   *)
(* fluorescence series afterwards.)                                        *)
C7_NoMutationAfterWrite ==
    [][/\ (Written(IcephysPath) => nwbfile' = nwbfile)
       /\ (Written(OphysPath) => nwb' = nwb)]_vars

\* the id columns of all tables of the notebooks
IdColumns ==
    {nwbfile.sweep_table.id, read_nwbfile.sweep_table.id, nwb.trials.id}
    \cup {nwb.plane_segmentations[t].id : t \in 1..Len(nwb.plane_segmentations)}

(* C8: in every table the row ids are strictly increasing in append order, *)
(* hence unique and never given twice: the n rows carry 0, 1, ..., n-1     *)
(* (0..3 for the four sweep-table rows; 0 and 1 are the first two ROIs).   *)
C8_RowIdsIncrease ==
    \A ids \in IdColumns :
        /\ \A i, j \in 1..Len(ids) : i < j => ids[i] < ids[j]
        /\ \A i \in 1..Len(ids) : ids[i] = i - 1

C8_Witness ==
    /\ nb = "ophys" /\ pc = "done"
    /\ rt_region.data = <<0, 1>>
    /\ SubSeq(nwb.plane_segmentations[1].id, 1, 2) = <<0, 1>>
    /\ Len(nwb.trials.id) = 2

(* C9: a plane segmentation holds ROIs of one kind of mask only: no table  *)
(* has both image_mask rows and pixel_mask rows, every row has its mask,   *)
(* and an add_roi with the other kind leaves the table as it was and       *)
(* raises.                                                                 *)
C9_OneMaskKind ==
    \A t \in 1..Len(nwb.plane_segmentations) :
        LET ps == nwb.plane_segmentations[t]
        IN  /\ Len(ps.image_mask) = 0 \/ Len(ps.pixel_mask_index) = 0
            /\ Len(ps.id) = Len(ps.image_mask) + Len(ps.pixel_mask_index)
            /\ Len(ps.colnames) <= 1

C9_Witness ==
    /\ nb = "ophys" /\ pc = "aborted" /\ err = "ValueError"
    /\ Len(nwb.plane_segmentations) = 2
    /\ Len(nwb.plane_segmentations[1].image_mask) = NumRois
    /\ Len(nwb.plane_segmentations[2].pixel_mask_index) = 1
    /\ Len(nwb.plane_segmentations[2].pixel_mask) = PatchSide * PatchSide

\* the bounds of the rows of a ragged column: the first row starts at 0 and
\* the index column holds the end of every row
RowBounds(index) == <<0>> \o index

SweepTableFull(st) ==
    /\ Len(st.sweep_number) = Len(st.id)
    /\ Len(RowBounds(st.series_index)) = Len(st.id) + 1

TrialsFull(t) ==
    /\ Len(t.columns) = Len(t.colnames)
    /\ \A c \in 1..Len(t.columns) : Len(t.columns[c]) = Len(t.id)

\* a mask column the table has holds one entry per row, the other none
SegmentationFull(ps) ==
    /\ Len(ps.image_mask) =
           (IF "image_mask" \in Range(ps.colnames) THEN Len(ps.id) ELSE 0)
    /\ Len(RowBounds(ps.pixel_mask_index)) =
           (IF "pixel_mask" \in Range(ps.colnames) THEN Len(ps.id) ELSE 0) + 1

AllColumnsFull ==
    /\ SweepTableFull(nwbfile.sweep_table)
    /\ SweepTableFull(file.sweep_table)
    /\ SweepTableFull(read_nwbfile.sweep_table)
    /\ TrialsFull(nwb.trials)
    /\ \A t \in 1..Len(nwb.plane_segmentations) :
         SegmentationFull(nwb.plane_segmentations[t])

\* the row counts of the tables, in a fixed order
RowCounts ==
    <<Len(nwbfile.sweep_table.id), Len(file.sweep_table.id),
      Len(read_nwbfile.sweep_table.id), Len(nwb.trials.id)>>
    \o [t \in 1..Len(nwb.plane_segmentations) |-> Len(nwb.plane_segmentations[t].id)]

(* C12: in every state every column of every table (the sweep table in     *)
(* memory, in the file and as read back, the trials, the plane             *)
(* segmentations) holds one entry per row, a ragged column one end per row *)
(* (rowCount + 1 bounds with the start 0 of the first row), and no step    *)
(* lowers the row count of a table or removes a table.                     *)
C12_ColumnsFull ==
    [][/\ AllColumnsFull /\ AllColumnsFull'
       /\ Len(RowCounts') >= Len(RowCounts)
       /\ \A k \in 1..Len(RowCounts) : RowCounts'[k] >= RowCounts[k]]_vars

C12_Witness ==
    /\ nb = "ophys" /\ pc = "done"
    /\ nwb.trials.colnames = <<"start_time", "stop_time", "correct">>
    /\ Len(nwb.trials.id) = MaxTrials
    /\ Len(nwb.trials.columns[3]) = MaxTrials
    /\ Len(nwb.plane_segmentations[2].pixel_mask_index) = NumRois

\* row i (from 1) of a ragged column: the flat values between its bounds
RowOf(flat, index, i) ==
    SubSeq(flat, RowBounds(index)[i] + 1, RowBounds(index)[i + 1])

RaggedBoundsOk(flat, index) ==
    LET b == RowBounds(index)
    IN  /\ b[1] = 0
        /\ \A i \in 1..(Len(b) - 1) : b[i] <= b[i + 1]
        /\ Last(b) = Len(flat)
        /\ \A i \in 1..Len(index) : Len(RowOf(flat, index, i)) = b[i + 1] - b[i]

\* every row of the series column of a graph's sweep table is the one
\* series that was added as that row
SeriesRowsOk(g) ==
    LET st == g.sweep_table
    IN  /\ RaggedBoundsOk(st.series, st.series_index)
        /\ \A i \in 1..Len(st.series_index) :
             /\ SeriesOfRow(st, i) = RowOf(st.series, st.series_index, i)
             /\ SeriesOfRow(st, i) = <<(g.stimulus \o g.acquisition)[i]>>

PixelRow(g, t, i) ==
    RowOf(g.plane_segmentations[t].pixel_mask,
          g.plane_segmentations[t].pixel_mask_index, i)

\* the pixel masks the loop of cell 17 can build
PixelMasks == {PixelMask(c[1], c[2]) : c \in RoiCorners}

PixelRowsOk(g) ==
    \A t \in 1..Len(g.plane_segmentations) :
        /\ RaggedBoundsOk(g.plane_segmentations[t].pixel_mask,
                          g.plane_segmentations[t].pixel_mask_index)
        /\ \A i \in 1..Len(g.plane_segmentations[t].pixel_mask_index) :
             PixelRow(g, t, i) \in PixelMasks

UniqueNames(h, addrs) ==
    \A i, j \in 1..Len(addrs) : h[addrs[i]].name = h[addrs[j]].name => i = j

\* the same for a collection held by value (file groups, ophys collections)
UniqueRecordNames(recs) ==
    \A i, j \in 1..Len(recs) : recs[i].name = recs[j].name => i = j

\* get-by-name answers, for every name of the collection, with the object
\* of the collection that carries the name
ByNameOk(h, addrs) ==
    /\ UniqueNames(h, addrs)
    /\ \A i \in 1..Len(addrs) : GetByName(h, addrs, h[addrs[i]].name) = addrs[i]

GraphByNameOk(h, g) ==
    /\ ByNameOk(h, g.devices) /\ ByNameOk(h, g.icephys_electrodes)
    /\ ByNameOk(h, g.stimulus) /\ ByNameOk(h, g.acquisition)

RowIdsOfSweep(st, sweep) ==
    LET rows == RowsOfSweep(st, sweep, Len(st.sweep_number))
    IN  [k \in 1..Len(rows) |-> st.id[rows[k]]]

\* the columns a sweep table has (Out[20]), with the type of the sweep numbers
SweepTableFields == {"id", "series", "series_index", "sweep_number", "sweep_dtype"}

WithoutLaterCells(g) ==
    /\ g.trials = NoTable
    /\ g.devices = <<>> /\ g.imaging_planes = <<>> /\ g.acquisition = <<>>
    /\ g.plane_segmentations = <<>> /\ g.roi_response_series = <<>>
    /\ \A i \in 1..Len(g.processing) : g.processing[i].name = "behavior"

(* C20: io.write puts into the file the graph as it is when io.write runs, *)
(* and nothing that is done to the graph in memory afterwards reaches the  *)
(* file: once ecephys_tutorial.nwb is written no step changes it, and it   *)
(* holds the subject and the behavior module but no trials, imaging plane, *)
(* acquisition, plane segmentation, ROI or fluorescence series, while nwb  *)
(* gains them; the icephys file likewise stays as written.                 *)
C20_WriteIsSnapshot ==
    [][/\ (~Written(OphysPath) /\ Written(OphysPath)' =>
              ecephys_file' = write_nwb(nwb) /\ ecephys_file'.root = nwb)
       /\ (Written(OphysPath) => ecephys_file' = ecephys_file)
       /\ (Written(OphysPath)' =>
              ecephys_file'.exists /\ WithoutLaterCells(ecephys_file'.root))
       /\ (~Written(IcephysPath) /\ Written(IcephysPath)' =>
              file' = write(heap, nwbfile))
       /\ (Written(IcephysPath) => file' = file)]_vars

C20_Witness ==
    /\ nb = "ophys" /\ pc = "done"
    /\ ecephys_file.exists /\ ecephys_file.root.subject = SubjectId
    /\ WithoutLaterCells(ecephys_file.root)
    /\ Len(nwb.trials.id) = MaxTrials
    /\ Len(nwb.plane_segmentations) = 2
    /\ Len(nwb.roi_response_series) = 1

\* the region references of the ophys notebook: the one cell 22 creates and
\* those the RoiResponseSeries of a graph hold
RegionsOf(g) ==
    {g.roi_response_series[i].rois : i \in 1..Len(g.roi_response_series)}

\* the rows of the tables of g that a region names with its k-th id
RegionRows(g, ref, k) ==
    UNION {{<<t, i>> : i \in {j \in 1..Len(g.plane_segmentations[t].id) :
                                 g.plane_segmentations[t].id[j] = ref.data[k]}} :
           t \in {u \in 1..Len(g.plane_segmentations) :
                     g.plane_segmentations[u].name = ref.table}}

\* every id of the region is the id of one row of the table it names
RegionBound(g, ref) ==
    \A k \in 1..Len(ref.data) : Cardinality(RegionRows(g, ref, k)) = 1

====
